---- MODULE Spec2Model ----
(***************************************************************************)
(* pico-thermometer (src/thermometer.c): a DHT11 single-wire decoder, a    *)
(* 4-digit multiplexed 7-segment display and a button trigger with a       *)
(* 2-second debounce, as one state machine.                                *)
(*                                                                         *)
(* Three specifications share the variables:                               *)
(*   Spec        main() with button_callback preempting it at every        *)
(*               statement boundary; read_from_dht and display_all are     *)
(*               taken as whole calls.                                     *)
(*   SpecDht     read_from_dht, one timing slot of the for loop per step.  *)
(*   SpecRender  display_all, one gpio_put / sleep_ms per step.            *)
(*                                                                         *)
(* Floats are carried in tenths (the sensor's unit): reading.humidity =    *)
(* 522 stands for 52.2f.  Every float the code forms is k/10 or k/50 for   *)
(* an integer k below 2^24, so comparing with 100 / 125 and truncating to  *)
(* uint agree with the exact rational result.                              *)
(***************************************************************************)
EXTENDS Integers, Sequences, FiniteSets, TLC

VARIABLES
    should_read,   \* bool should_read                       (line 67)
    last_press,    \* uint64_t last_press                    (line 66)
    display,       \* bool display[4][8]                     (line 70)
    gpio,          \* output level of every driven pin
    irq_enabled,   \* rising-edge interrupt of BUTTON_PIN armed
    pc,            \* position of main()
    now,           \* last value time_us_64() returned
    reading,       \* dht_reading local of print_dht_reading (line 143)
    calls,         \* set_digit calls of the running print_dht_reading
    hist,          \* history of triggers (observation only)
    dht,           \* locals of read_from_dht while it runs
    wire,          \* hold counts the sensor line presents, one per slot
    rnd            \* position inside display_all

vars == << should_read, last_press, display, gpio, irq_enabled, pc, now,
           reading, calls, hist, dht, wire, rnd >>

(***************************************************************************)
(* Program constants                                                       *)
(***************************************************************************)
DHT_PIN == 15
MAX_TIMINGS == 85
BUTTON_PIN == 26
DIGIT_PINS == << 16, 17, 18, 19 >>
SEGMENT_PINS == << 2, 3, 4, 5, 6, 7, 8, 9 >>

DIGIT_MASKS ==
    << << 1, 1, 1, 1, 1, 1, 0, 0 >>,
       << 0, 1, 1, 0, 0, 0, 0, 0 >>,
       << 1, 1, 0, 1, 1, 0, 1, 0 >>,
       << 1, 1, 1, 1, 0, 0, 1, 0 >>,
       << 0, 1, 1, 0, 0, 1, 1, 0 >>,
       << 1, 0, 1, 1, 0, 1, 1, 0 >>,
       << 1, 0, 1, 1, 1, 1, 1, 0 >>,
       << 1, 1, 1, 0, 0, 0, 0, 0 >>,
       << 1, 1, 1, 1, 1, 1, 1, 0 >>,
       << 1, 1, 1, 0, 0, 1, 1, 0 >> >>

\* the debounce interval of line 198, in microseconds
DEBOUNCE_US == 2000000
\* the frame count of display_all, line 122
FRAMES == 1000
\* the polling steps after which a slot gives up, lines 231 and 234
SLOT_TIMEOUT == 255
\* the hold count above which a bit is 1, line 238
BIT_THRESHOLD == 50

(***************************************************************************)
(* read_from_dht                                                           *)
(***************************************************************************)
\* What the write to data[5] hits when a 41st bit is decoded (j / 8 = 5 is
\* past the int data[5] array, undefined behaviour): padding, the local j,
\* or the saved registers of the frame.
Victims == { "pad", "j", "frame" }

\* int data[5] = {0,...}; uint last = 1; uint j = 0; i = 0   (lines 216-226)
\* bits counts the bits stored, maxidx is the largest index j / 8 written
\* (both observation only); spill is the word after data[4].
DhtLocals ==
    [ at |-> "slots", i |-> 0, j |-> 0, data |-> << 0, 0, 0, 0, 0 >>,
      last |-> 1, spill |-> 0, bits |-> 0, smashed |-> FALSE, maxidx |-> -1 ]

DhtIdle ==
    [ at |-> "idle", i |-> 0, j |-> 0, data |-> << 0, 0, 0, 0, 0 >>,
      last |-> 1, spill |-> 0, bits |-> 0, smashed |-> FALSE, maxidx |-> -1 ]

\* ShiftIn with the threshold itself read as a 1
ShiftInAtThreshold(word, count) ==
    word * 2 + (IF count >= BIT_THRESHOLD THEN 1 ELSE 0)

\* data[j / 8] <<= 1; if (count > 50) data[j / 8] |= 1;   (lines 237-238)
ShiftIn(word, count) == word * 2 + (IF count > BIT_THRESHOLD THEN 1 ELSE 0)

\* lines 237-239 for one decoded bit; victim decides the out-of-bounds case
StoreBit(st, count, victim) ==
    LET idx == st.j \div 8
        hit == [st EXCEPT !.bits = st.bits + 1,
                          !.maxidx = IF idx > st.maxidx THEN idx ELSE st.maxidx]
    IN
    IF idx <= 4
    THEN [hit EXCEPT !.data[idx + 1] = ShiftIn(st.data[idx + 1], count),
                     !.j = st.j + 1]
    ELSE     CASE victim = "j" ->
                    [hit EXCEPT !.j = ShiftIn(st.j, count) + 1]
               [] victim = "frame" ->
                    [hit EXCEPT !.j = st.j + 1, !.smashed = TRUE]
               [] OTHER ->
                    [hit EXCEPT !.j = st.j + 1,
                                !.spill = ShiftIn(st.spill, count)]

\* One pass of the for loop body (lines 227-240).  count is the number of
\* polls the line held the level `last` (the while loop of lines 228-232
\* stops it at 255); the line then shows the other level, except at a
\* timeout, where it still shows `last`.
DhtSlot(st, count, victim) ==
    IF count = SLOT_TIMEOUT
    THEN [st EXCEPT !.at = "validate"]
    ELSE LET flipped == [st EXCEPT !.last = 1 - st.last]
             stored == IF st.i >= 4 /\ st.i % 2 = 0
                       THEN StoreBit(flipped, count, victim)
                       ELSE flipped
         IN  [stored EXCEPT !.i = st.i + 1,
                            !.at = IF st.i + 1 < MAX_TIMINGS
                                   THEN "slots" ELSE "validate"]

\* (data[0] + data[1] + data[2] + data[3]) & 0xFF   (line 243)
Checksum(data) == (data[1] + data[2] + data[3] + data[4]) % 256

\* Validates with the sum left unmasked
ValidatesUnmasked(st) ==
    st.j >= 40 /\ st.data[5] = st.data[1] + st.data[2] + st.data[3] + st.data[4]

\* the condition of line 243
Validates(st) == st.j >= 40 /\ st.data[5] = Checksum(st.data)

\* lines 244-247, in tenths
Humidity(data) ==
    LET raw == data[1] * 256 + data[2] IN
    IF raw > 100 * 10 THEN data[1] * 10 ELSE raw

\* TempCelsius overriding with the masked byte
TempCelsiusMasked(data) ==
    LET raw == (data[3] % 128) * 256 + data[4]
        mag == IF raw > 125 * 10 THEN (data[3] % 128) * 10 ELSE raw
    IN  IF (data[3] \div 128) % 2 = 1 THEN 0 - mag ELSE mag

\* lines 248-254, in tenths
TempCelsius(data) ==
    LET raw == (data[3] % 128) * 256 + data[4]
        mag == IF raw > 125 * 10 THEN data[3] * 10 ELSE raw
    IN  IF (data[3] \div 128) % 2 = 1 THEN 0 - mag ELSE mag

\* *result as read_from_dht leaves it: written only inside the if of
\* line 243.  `before` is what the caller's dht_reading held.
DhtResult(st, before) ==
    IF Validates(st)
    THEN [ written |-> TRUE, humidity |-> Humidity(st.data),
           temp_celsius |-> TempCelsius(st.data) ]
    ELSE before

\* the whole slot loop over the counts w, from slot state st
RECURSIVE DhtRun(_, _, _)
DhtRun(st, w, victim) ==
    IF st.at # "slots"
    THEN st
    ELSE DhtRun(DhtSlot(st, w[st.i + 1], victim), w, victim)

\* read_from_dht up to line 241 on the line behaviour w
ReadFromDht(w, victim) == DhtRun(DhtLocals, w, victim)

(***************************************************************************)
(* The sensor line: what the pin presents during one read                  *)
(***************************************************************************)
\* 5-byte frames a sensor may send (humidity hi/lo, temperature hi/lo, sum)
Samples ==
    { << 2, 10, 1, 5, 18 >>,        \* 52.2 %, 26.1 C
      << 2, 10, 1, 5, 19 >>,        \* the same with a wrong checksum
      << 0, 50, 128, 10, 188 >>,    \* 5.0 %, -1.0 C
      << 55, 0, 26, 0, 81 >>,       \* DHT11 style: both values overridden
      << 3, 232, 0, 250, 229 >>,    \* 100.0 %, 25.0 C
      << 3, 233, 4, 227, 211 >>,    \* 100.1 % and 125.1 C: overridden
      << 1, 244, 4, 226, 219 >>,    \* 50.0 %, 125.0 C
      << 1, 244, 1, 144, 134 >>,    \* 50.0 %, 40.0 C = 104 F
      << 1, 244, 128, 200, 61 >>,   \* 50.0 %, -20.0 C = -4 F
      << 1, 244, 154, 0, 143 >>,    \* sign bit set and magnitude overridden
      << 255, 255, 255, 255, 252 >> }

\* bit k (0..39) of a frame, most significant bit of byte 0 first
FrameBit(sample, k) ==
    LET byte == sample[(k \div 8) + 1]
        sh == 7 - (k % 8)
    IN  (byte \div (2 ^ sh)) % 2

\* The hold counts of the 85 slots when the sensor sends `sample`: slots
\* 0..3 are the preamble, slot 4 + 2k is the high half of bit k (hi1 polls
\* for a 1, hi0 for a 0), odd slots are the low halves (lo polls); from
\* slot `cut` on the line stops flipping (count reaches 255).  With
\* cut = 85 the line keeps flipping through slot 84.
WireOf(sample, hi1, hi0, lo, cut) ==
    [ s \in 1..MAX_TIMINGS |->
        LET i == s - 1
            k == (i - 4) \div 2
        IN  IF i >= cut THEN SLOT_TIMEOUT
            ELSE IF i < 4 \/ i % 2 = 1 THEN lo
            ELSE IF k >= 40 THEN hi1
            ELSE IF FrameBit(sample, k) = 1 THEN hi1 ELSE hi0 ]

Cuts == { 0, 44, 82, 84, 85 }

Wires ==
    { WireOf(s, h[1], h[2], lo, cut) :
        s \in Samples, h \in { << 51, 50 >>, << 254, 0 >> },
        lo \in { 1, 254 }, cut \in Cuts }

\* what an uninitialised dht_reading (line 143) may hold
UninitReadings ==
    { [ written |-> FALSE, humidity |-> g[1], temp_celsius |-> g[2] ] :
        g \in { << 0, 0 >>, << 522, 261 >>, << 1000, 1000 >>, << -50, -400 >> } }

\* the locals of read_from_dht when its slot loop ends, for every line
\* behaviour explored
DhtFinals == { ReadFromDht(w, v) : w \in Wires, v \in Victims }

ReadingDead == [ written |-> FALSE, humidity |-> 0, temp_celsius |-> 0 ]

(***************************************************************************)
(* Display                                                                 *)
(***************************************************************************)
Pins == { DHT_PIN } \cup { DIGIT_PINS[k] : k \in 1..4 }
                    \cup { SEGMENT_PINS[k] : k \in 1..8 }

\* gpio_init leaves every pin at output value 0 (lines 167-183)
GpioBoot == [ p \in Pins |-> 0 ]

\* bool display[][8] = { {0}, {0}, {0}, {0} }   (lines 70-75)
DisplayInit == [ s \in 1..4 |-> << 0, 0, 0, 0, 0, 0, 0, 0 >> ]

\* What memcpy copies when DIGIT_MASKS[value] is read past the table's 10
\* entries (undefined behaviour): some 8 bytes, read as bool.
OobPatterns == { << 0, 0, 0, 0, 0, 0, 0, 0 >>, << 1, 1, 1, 1, 1, 1, 1, 1 >> }

\* set_digit (lines 82-84); junk is what an out-of-range lookup yields
set_digit(disp, selector, value, junk) ==
    [ disp EXCEPT ![selector + 1] =
        IF value \in 0..9 THEN DIGIT_MASKS[value + 1] ELSE junk ]

\* DigitLevel with the polarity swapped
DigitLevelSwapped(selector, i) == IF selector = i THEN 1 ELSE 0

\* the level display_digit puts on digit-select line i (line 107)
DigitLevel(selector, i) == IF selector = i THEN 0 ELSE 1

\* the level display_digit puts on segment line i (line 112)
SegmentLevel(disp, selector, i) == disp[selector + 1][i + 1]

\* display_off with the digit-select loop left out
display_off_segments_only(g) ==
    [ p \in Pins |->
        IF p \in { SEGMENT_PINS[k] : k \in 1..8 } THEN 0 ELSE g[p] ]

\* display_off (lines 89-99) as a whole
display_off(g) ==
    [ p \in Pins |->
        IF p \in { DIGIT_PINS[k] : k \in 1..4 } THEN 1
        ELSE IF p \in { SEGMENT_PINS[k] : k \in 1..8 } THEN 0
        ELSE g[p] ]

(***************************************************************************)
(* print_dht_reading: float to digits                                      *)
(***************************************************************************)
\* (uint)(num / den), returned as the pair (value / 10, value % 10) so that
\* values near 2^32 stay within TLC's 32-bit integers.  A value of -1.0 or
\* below is outside uint, undefined behaviour: the conversion saturates to
\* 0 (the Cortex-M0+ float library) or wraps modulo 2^32 (2^32 =
\* 429496729 * 10 + 6).
UintCast(num, den) ==
    IF num >= 0
    THEN { [ q |-> (num \div den) \div 10, r |-> (num \div den) % 10 ] }
    ELSE IF 0 - num < den
    THEN { [ q |-> 0, r |-> 0 ] }
    ELSE LET m == (0 - num) \div den IN
         { [ q |-> 0, r |-> 0 ],
           [ q |-> 429496729 + ((6 - m) \div 10), r |-> (6 - m) % 10 ] }

\* (uint)(fahrenheit), fahrenheit = temp_celsius * 9 / 5 + 32 (lines 147-149)
FahrenheitCast(r) == UintCast(r.temp_celsius * 9 + 1600, 50)

\* (uint)(reading.humidity)   (lines 150-151)
HumidityCast(r) == UintCast(r.humidity, 10)

\* DigitArgs with humidity and temperature in each other's positions
DigitArgsSwapped(f, h) ==
    << << 0, h.q >>, << 1, h.r >>, << 2, f.q >>, << 3, f.r >> >>

\* the four (selector, value) pairs of lines 148-151
DigitArgs(f, h) ==
    << << 0, f.q >>, << 1, f.r >>, << 2, h.q >>, << 3, h.r >> >>

\* display after the first n set_digit calls of args
RECURSIVE SetDigits(_, _, _, _)
SetDigits(disp, args, junk, n) ==
    IF n = 0 THEN disp
    ELSE set_digit(SetDigits(disp, args, junk, n - 1),
                   args[n][1], args[n][2], junk[n])

(***************************************************************************)
(* main loop and interrupt handler                                         *)
(***************************************************************************)
\* largest clock value explored
MaxTime == 6000003

\* what the clock may advance between two calls of time_us_64
Deltas == { 0, DEBOUNCE_US - 1, DEBOUNCE_US, DEBOUNCE_US + 1 }

HistInit ==
    [ unseen |-> FALSE,        \* a handler ran since the last test that saw true
      since_clear |-> FALSE,   \* a handler ran since the last clear
      accepted |-> 0,          \* accepted triggers, counted up to 2
      prev_press |-> 0,        \* last_press before the latest accepted trigger
      dropped |-> FALSE,       \* the latest debounce check dropped the request
      taken |-> TRUE,          \* at the latest clear a handler had run since the
                               \* clear before it (or since start-up)
      since_read |-> FALSE,    \* a handler ran since the latest read_from_dht call
      read_edge |-> TRUE,      \* at the latest read_from_dht call a handler had
                               \* run since the call before it (or since start-up)
      reads |-> 0,             \* read_from_dht calls since the latest accepted trigger
      renders |-> 0 ]          \* display_all calls since the latest accepted trigger

RndIdle == [ at |-> "idle", i |-> 0, j |-> 0, k |-> 0, dwells |-> 0 ]

Init ==
    /\ should_read = FALSE
    /\ last_press = 0
    /\ display = DisplayInit
    /\ gpio = GpioBoot
    /\ irq_enabled = TRUE
    /\ pc = "test"
    /\ now = 0
    /\ reading = ReadingDead
    /\ calls = << >>
    /\ hist = HistInit
    /\ dht = DhtIdle
    /\ wire = << >>
    /\ rnd = RndIdle

\* button_callback that also stamps the press
button_callback_stamps ==
    /\ irq_enabled
    /\ pc # "hardfault"
    /\ should_read' = TRUE
    /\ irq_enabled' = TRUE
    /\ last_press' = now
    /\ hist' = [hist EXCEPT !.unseen = TRUE, !.since_clear = TRUE,
                            !.since_read = TRUE]
    /\ UNCHANGED << display, gpio, pc, now, reading, calls, dht, wire, rnd >>

\* button_callback (lines 130-139): runs to completion between two
\* statements of main; the interrupt is off at 132 and armed again at 138.
button_callback ==
    /\ irq_enabled
    /\ pc # "hardfault"
    /\ should_read' = TRUE
    /\ irq_enabled' = TRUE
    /\ hist' = [hist EXCEPT !.unseen = TRUE, !.since_clear = TRUE,
                            !.since_read = TRUE]
    /\ UNCHANGED << last_press, display, gpio, pc, now, reading, calls,
                    dht, wire, rnd >>

\* if (should_read)   (line 193)
main_test ==
    /\ pc = "test"
    /\ pc' = IF should_read THEN "clear" ELSE "sleep"
    /\ hist' = IF should_read THEN [hist EXCEPT !.unseen = FALSE] ELSE hist
    /\ UNCHANGED << should_read, last_press, display, gpio, irq_enabled, now,
                    reading, calls, dht, wire, rnd >>

\* main_clear with the store left out
main_clear_keeps_flag ==
    /\ pc = "clear"
    /\ pc' = "time"
    /\ hist' = [hist EXCEPT !.since_clear = FALSE, !.taken = hist.since_clear]
    /\ UNCHANGED << should_read, last_press, display, gpio, irq_enabled, now,
                    reading, calls, dht, wire, rnd >>

\* should_read = false;   (line 194)
main_clear ==
    /\ pc = "clear"
    /\ should_read' = FALSE
    /\ pc' = "time"
    /\ hist' = [hist EXCEPT !.since_clear = FALSE, !.taken = hist.since_clear]
    /\ UNCHANGED << last_press, display, gpio, irq_enabled, now, reading,
                    calls, dht, wire, rnd >>

\* TooSoon with a zero dropped from the interval
TooSoonShort(current_time, last) == current_time <= last + 200000

\* current_time <= last_press + 2000000   (line 198)
TooSoon(current_time, last) == current_time <= last + DEBOUNCE_US

\* main_debounce stamping last_press on the dropped path too
main_debounce_stamps ==
    /\ pc = "time"
    /\ \E d \in Deltas :
         LET current_time == now + d IN
         /\ current_time <= MaxTime
         /\ now' = current_time
         /\ last_press' = current_time
         /\ IF TooSoon(current_time, last_press)
            THEN /\ pc' = "test"
                 /\ hist' = [hist EXCEPT !.dropped = TRUE]
            ELSE /\ pc' = "read"
                 /\ hist' = [hist EXCEPT
                               !.dropped = FALSE,
                               !.accepted = IF @ < 2 THEN @ + 1 ELSE @,
                               !.prev_press = last_press,
                               !.reads = 0, !.renders = 0]
    /\ UNCHANGED << should_read, display, gpio, irq_enabled, reading, calls,
                    dht, wire, rnd >>

\* lines 197-202: read the clock, drop the request or stamp it
main_debounce ==
    /\ pc = "time"
    /\ \E d \in Deltas :
         LET current_time == now + d IN
         /\ current_time <= MaxTime
         /\ now' = current_time
         /\ IF TooSoon(current_time, last_press)
            THEN /\ pc' = "test"
                 /\ hist' = [hist EXCEPT !.dropped = TRUE]
                 /\ UNCHANGED last_press
            ELSE /\ pc' = "read"
                 /\ last_press' = current_time
                 /\ hist' = [hist EXCEPT
                               !.dropped = FALSE,
                               !.accepted = IF @ < 2 THEN @ + 1 ELSE @,
                               !.prev_press = last_press,
                               !.reads = 0, !.renders = 0]
    /\ UNCHANGED << should_read, display, gpio, irq_enabled, reading, calls,
                    dht, wire, rnd >>

\* read_from_dht(&reading)   (lines 143-144, 215-256) as a whole call; a
\* smashed frame shows when the function returns
main_read ==
    /\ pc = "read"
    /\ \E st \in DhtFinals, u \in UninitReadings :
         /\ reading' = DhtResult(st, u)
         /\ pc' = IF st.smashed THEN "hardfault" ELSE "digits"
    /\ gpio' = [gpio EXCEPT ![DHT_PIN] = 0]
    /\ hist' = [hist EXCEPT !.reads = IF @ < 2 THEN @ + 1 ELSE @,
                            !.read_edge = hist.since_read,
                            !.since_read = FALSE]
    /\ UNCHANGED << should_read, last_press, display, irq_enabled, now,
                    calls, dht, wire, rnd >>

\* lines 147-151: the four set_digit calls.  A lookup past DIGIT_MASKS
\* either copies some bytes or faults on the address it read.
main_set_digits ==
    /\ pc = "digits"
    /\ \E f \in FahrenheitCast(reading), h \in HumidityCast(reading),
          junk \in [1..4 -> OobPatterns], fault \in BOOLEAN :
         LET args == DigitArgs(f, h)
             bad == { n \in 1..4 : args[n][2] \notin 0..9 }
             first == CHOOSE n \in bad : \A m \in bad : n <= m
         IN  /\ fault => bad # {}
             /\ \A n \in 1..4 : args[n][2] \in 0..9 => junk[n] = DisplayInit[n]
             /\ IF fault
                THEN /\ display' = SetDigits(display, args, junk, first - 1)
                     /\ calls' = SubSeq(args, 1, first)
                     /\ pc' = "hardfault"
                ELSE /\ display' = SetDigits(display, args, junk, 4)
                     /\ calls' = args
                     /\ pc' = "render"
    /\ UNCHANGED << should_read, last_press, gpio, irq_enabled, now, reading,
                    hist, dht, wire, rnd >>

\* main_display_all with the flag cleared after the service
main_display_all_clears ==
    /\ pc = "render"
    /\ gpio' = display_off(gpio)
    /\ pc' = "sleep"
    /\ reading' = ReadingDead
    /\ calls' = << >>
    /\ should_read' = FALSE
    /\ hist' = [hist EXCEPT !.renders = IF @ < 2 THEN @ + 1 ELSE @]
    /\ UNCHANGED << last_press, display, irq_enabled, now, dht, wire, rnd >>

\* display_all() (line 152, lines 121-128) as a whole call: display_digit
\* writes only the twelve pins display_off writes last.  print_dht_reading
\* returns and its locals die.
main_display_all ==
    /\ pc = "render"
    /\ gpio' = display_off(gpio)
    /\ pc' = "sleep"
    /\ reading' = ReadingDead
    /\ calls' = << >>
    /\ hist' = [hist EXCEPT !.renders = IF @ < 2 THEN @ + 1 ELSE @]
    /\ UNCHANGED << should_read, last_press, display, irq_enabled, now,
                    dht, wire, rnd >>

\* sleep_ms(10)   (line 207)
main_sleep ==
    /\ pc = "sleep"
    /\ pc' = "test"
    /\ UNCHANGED << should_read, last_press, display, gpio, irq_enabled, now,
                    reading, calls, hist, dht, wire, rnd >>

Next ==
    \/ button_callback
    \/ main_test
    \/ main_clear
    \/ main_debounce
    \/ main_read
    \/ main_set_digits
    \/ main_display_all
    \/ main_sleep

Spec == Init /\ [][Next]_vars

(***************************************************************************)
(* SpecDht: read_from_dht slot by slot, called for the first accepted      *)
(* trigger                                                                 *)
(***************************************************************************)
InitDht ==
    /\ should_read = FALSE
    /\ last_press = DEBOUNCE_US + 1
    /\ display = DisplayInit
    /\ gpio = GpioBoot
    /\ irq_enabled = TRUE
    /\ pc = "read"
    /\ now = DEBOUNCE_US + 1
    /\ reading \in UninitReadings
    /\ calls = << >>
    /\ hist = [HistInit EXCEPT !.accepted = 1, !.since_read = TRUE]
    /\ dht = DhtIdle
    /\ wire \in Wires
    /\ rnd = RndIdle

\* lines 216-224: the locals, the 20 ms wake-up pulse, the 40 us wait
dht_wake ==
    /\ dht.at = "idle"
    /\ dht' = DhtLocals
    /\ gpio' = [gpio EXCEPT ![DHT_PIN] = 0]
    /\ UNCHANGED << should_read, last_press, display, irq_enabled, pc, now,
                    reading, calls, hist, wire, rnd >>

\* one pass of the for loop (lines 226-241)
dht_slot ==
    /\ dht.at = "slots"
    /\ \E v \in Victims : dht' = DhtSlot(dht, wire[dht.i + 1], v)
    /\ UNCHANGED << should_read, last_press, display, gpio, irq_enabled, pc,
                    now, reading, calls, hist, wire, rnd >>

\* lines 243-255
dht_validate ==
    /\ dht.at = "validate"
    /\ reading' = DhtResult(dht, reading)
    /\ dht' = [dht EXCEPT !.at = "done"]
    /\ UNCHANGED << should_read, last_press, display, gpio, irq_enabled, pc,
                    now, calls, hist, wire, rnd >>

NextDht == dht_wake \/ dht_slot \/ dht_validate

SpecDht == InitDht /\ [][NextDht]_vars

(***************************************************************************)
(* SpecRender: display_all, one gpio_put or sleep_ms per step              *)
(***************************************************************************)
\* display[] as print_dht_reading leaves it for 78 F / 52 % and 32 F / 0 %
RenderDisplays ==
    { SetDigits(DisplayInit,
                DigitArgs([ q |-> a[1], r |-> a[2] ], [ q |-> a[3], r |-> a[4] ]),
                DisplayInit, 4) :
        a \in { << 7, 8, 5, 2 >>, << 3, 2, 0, 0 >> } }

InitRender ==
    /\ should_read = FALSE
    /\ last_press = DEBOUNCE_US + 1
    /\ display \in RenderDisplays
    /\ gpio \in { GpioBoot, display_off(GpioBoot) }
    /\ irq_enabled = TRUE
    /\ pc = "render"
    /\ now = DEBOUNCE_US + 1
    /\ reading = ReadingDead
    /\ calls = << >>
    /\ hist = [HistInit EXCEPT !.accepted = 1, !.reads = 1]
    /\ dht = DhtIdle
    /\ wire = << >>
    /\ rnd = [ at |-> "digit", i |-> 0, j |-> 0, k |-> 0, dwells |-> 0 ]

RenderFrame == << should_read, last_press, display, irq_enabled, pc, now,
                  reading, calls, hist, dht, wire >>

\* gpio_put(DIGIT_PINS[i], (selector == i) ? 0 : 1)   (lines 106-108)
render_digit_put ==
    /\ rnd.at = "digit"
    /\ gpio' = [gpio EXCEPT ![DIGIT_PINS[rnd.k + 1]] = DigitLevel(rnd.j, rnd.k)]
    /\ rnd' = IF rnd.k + 1 < 4
              THEN [rnd EXCEPT !.k = rnd.k + 1]
              ELSE [rnd EXCEPT !.k = 0, !.at = "segment"]
    /\ UNCHANGED RenderFrame

\* gpio_put(SEGMENT_PINS[i], display[selector][i])   (lines 111-113)
render_segment_put ==
    /\ rnd.at = "segment"
    /\ gpio' = [gpio EXCEPT ![SEGMENT_PINS[rnd.k + 1]] =
                                SegmentLevel(display, rnd.j, rnd.k)]
    /\ rnd' = IF rnd.k + 1 < 8
              THEN [rnd EXCEPT !.k = rnd.k + 1]
              ELSE [rnd EXCEPT !.k = 0, !.at = "sleep"]
    /\ UNCHANGED RenderFrame

\* where display_all goes after display_digit(j) of frame i returns
\* (lines 122-127)
AfterDwell(r) ==
    IF r.j + 1 < 4
    THEN [r EXCEPT !.j = r.j + 1, !.at = "digit"]
    ELSE IF r.i + 1 < FRAMES
    THEN [r EXCEPT !.i = r.i + 1, !.j = 0, !.at = "digit"]
    ELSE [r EXCEPT !.i = r.i + 1, !.j = 0, !.at = "off_digit"]

\* sleep_ms(2) (line 115); dwells counts the dwell points so far
render_dwell ==
    /\ rnd.at = "sleep"
    /\ rnd' = [AfterDwell(rnd) EXCEPT !.dwells = rnd.dwells + 1]
    /\ UNCHANGED gpio
    /\ UNCHANGED RenderFrame

\* gpio_put(DIGIT_PINS[i], 1)   (lines 91-93)
off_digit_put ==
    /\ rnd.at = "off_digit"
    /\ gpio' = [gpio EXCEPT ![DIGIT_PINS[rnd.k + 1]] = 1]
    /\ rnd' = IF rnd.k + 1 < 4
              THEN [rnd EXCEPT !.k = rnd.k + 1]
              ELSE [rnd EXCEPT !.k = 0, !.at = "off_segment"]
    /\ UNCHANGED RenderFrame

\* gpio_put(SEGMENT_PINS[i], 0)   (lines 96-98)
off_segment_put ==
    /\ rnd.at = "off_segment"
    /\ gpio' = [gpio EXCEPT ![SEGMENT_PINS[rnd.k + 1]] = 0]
    /\ rnd' = IF rnd.k + 1 < 8
              THEN [rnd EXCEPT !.k = rnd.k + 1]
              ELSE [rnd EXCEPT !.k = 0, !.at = "done"]
    /\ UNCHANGED RenderFrame

NextRender ==
    \/ render_digit_put
    \/ render_segment_put
    \/ render_dwell
    \/ off_digit_put
    \/ off_segment_put

SpecRender == InitRender /\ [][NextRender]_vars

(***************************************************************************)
(* Properties                                                              *)
(***************************************************************************)

\* C1: the values of last_press at two consecutive accepted triggers differ
\* by at least 2,000,000 us, so of two triggers observed less than that
\* apart only the first reaches print_dht_reading.
C1_DebounceMinInterval ==
    hist.accepted >= 2 => last_press - hist.prev_press >= DEBOUNCE_US

C1_Witness ==
    /\ pc = "read"
    /\ hist.accepted = 2
    /\ last_press - hist.prev_press = DEBOUNCE_US + 1

\* C2: a request the main loop observes when current_time is exactly
\* last_press + 2,000,000 is accepted: last_press becomes current_time and
\* the read-and-display cycle starts.
C2_BoundaryAccepted ==
    [][ (pc = "time" /\ pc' # "time" /\ now' = last_press + DEBOUNCE_US)
            => (pc' = "read" /\ last_press' = now') ]_vars

\* C3: when read_from_dht did not write a reading (validation failed), the
\* set_digit calls of print_dht_reading leave display[0..3] as it was.
C3_NoUpdateOnFailedRead ==
    [][ (pc = "digits" /\ pc' # "digits" /\ ~reading.written)
            => display' = display ]_vars

\* C4: the validation step writes *result if and only if at least 40 bits
\* were decoded and data[4] = (data[0]+data[1]+data[2]+data[3]) mod 256;
\* otherwise *result is left as it was.
C4_ChecksumAcceptance ==
    [][ (dht.at = "validate" /\ dht'.at = "done")
            => IF /\ dht.bits >= 40
                  /\ dht.data[5] =
                       (dht.data[1] + dht.data[2] + dht.data[3] + dht.data[4]) % 256
               THEN reading'.written
               ELSE reading' = reading ]_vars

C4_Witness ==
    /\ dht.at = "done"
    /\ dht.bits >= 40
    /\ \A n \in 1..5 : dht.data[n] \in 0..255
    /\ dht.data[1] + dht.data[2] + dht.data[3] + dht.data[4] >= 256
    /\ reading.written

\* C5: should_read is false from the clear of line 194 on unless a handler
\* ran since (so it is false before the debounce check and before
\* read_from_dht), a handler that ran after the clear leaves it true until
\* the main loop tests it again, and that test then takes the request.
C5_FlagState ==
    /\ hist.since_clear => should_read
    /\ (pc \in { "time", "read", "digits", "render" } /\ ~hist.since_clear)
          => ~should_read

C5_ClearedBeforeService ==
    /\ []C5_FlagState
    /\ [][ (pc = "test" /\ pc' # "test" /\ hist.since_clear) => pc' = "clear" ]_vars

C5_Witness ==
    /\ pc = "sleep"
    /\ hist.accepted >= 1
    /\ ~hist.dropped
    /\ hist.since_clear
    /\ should_read

\* C6: the main loop never clears should_read while a handler execution has
\* set it that no main-loop test has seen as true since.
C6_NoLostTrigger ==
    [][ (pc = "clear" /\ pc' = "time") => ~hist.unseen ]_vars

\* C7: every set_digit call of print_dht_reading has selector in 0..3 and
\* value in 0..9.
C7_DigitInBounds ==
    \A n \in 1..Len(calls) : calls[n][1] \in 0..3 /\ calls[n][2] \in 0..9

\* C8: the decoder stores at most 40 bits and writes only data[0..4].
C8_FortyBits ==
    dht.bits <= 40 /\ dht.j <= 40 /\ dht.maxidx <= 4

\* C9: for an accepted sample, in tenths: humidity is b0*256+b1, or b0 when
\* that exceeds 100.0; the temperature magnitude is (b2 mod 128)*256+b3, or
\* the unmasked b2 when that exceeds 125.0; the temperature is negated
\* exactly when bit 7 of b2 is set.
C9_RangeOverrideAndSign ==
    (dht.at = "done" /\ reading.written) =>
        LET b0 == dht.data[1]
            b1 == dht.data[2]
            b2 == dht.data[3]
            b3 == dht.data[4]
            hraw == b0 * 256 + b1
            traw == (b2 % 128) * 256 + b3
            mag == IF traw > 1250 THEN b2 * 10 ELSE traw
        IN  /\ reading.humidity = (IF hraw > 1000 THEN b0 * 10 ELSE hraw)
            /\ reading.temp_celsius = (IF b2 >= 128 THEN 0 - mag ELSE mag)

C9_Witness ==
    /\ dht.at = "done"
    /\ dht.data = << 255, 255, 255, 255, 252 >>
    /\ reading = [ written |-> TRUE, humidity |-> 2550, temp_celsius |-> -2550 ]

\* C10: the d-th dwell point (d = 0, 1, ...) of display_all is for position
\* d mod 4, there are exactly 4 * 1000 of them, and at each only that
\* position's digit-select line is 0 and the segment lines equal
\* display[position].
C10_RenderCycle ==
    /\ rnd.at = "sleep" =>
          LET p == rnd.dwells % 4 IN
          /\ rnd.dwells < 4 * FRAMES
          /\ \A k \in 0..3 : gpio[DIGIT_PINS[k + 1]] = (IF k = p THEN 0 ELSE 1)
          /\ \A k \in 0..7 : gpio[SEGMENT_PINS[k + 1]] = display[p + 1][k + 1]
    /\ rnd.at \in { "off_digit", "off_segment", "done" } => rnd.dwells = 4 * FRAMES

C10_Witness ==
    /\ rnd.at = "sleep"
    /\ rnd.dwells = 4 * FRAMES - 1
    /\ gpio[DIGIT_PINS[4]] = 0
    /\ gpio[DIGIT_PINS[1]] = 1

\* C11: whenever the main loop is at sleep_ms(10) or at the should_read
\* test after a trigger was accepted, all four digit-select lines are 1 and
\* all eight segment lines are 0.
C11_BlankAfterRender ==
    (hist.accepted >= 1 /\ pc \in { "sleep", "test" }) =>
        /\ \A k \in 1..4 : gpio[DIGIT_PINS[k]] = 1
        /\ \A k \in 1..8 : gpio[SEGMENT_PINS[k]] = 0

C11_Witness ==
    /\ pc = "test"
    /\ hist.accepted = 2
    /\ display # DisplayInit
    /\ \A k \in 1..4 : gpio[DIGIT_PINS[k]] = 1

\* C12: after a successful read whose truncated Fahrenheit value F and
\* truncated humidity H are both in 0..99, display[0..3] hold the table
\* patterns of F div 10, F mod 10, H div 10, H mod 10.
C12_DigitPositions ==
    (pc = "render" /\ reading.written) =>
        LET n == reading.temp_celsius * 9 + 1600
            F == IF n >= 0 THEN n \div 50 ELSE 0 - ((0 - n) \div 50)
            H == IF reading.humidity >= 0 THEN reading.humidity \div 10
                 ELSE 0 - ((0 - reading.humidity) \div 10)
        IN  (F \in 0..99 /\ H \in 0..99) =>
                /\ display[1] = DIGIT_MASKS[(F \div 10) + 1]
                /\ display[2] = DIGIT_MASKS[(F % 10) + 1]
                /\ display[3] = DIGIT_MASKS[(H \div 10) + 1]
                /\ display[4] = DIGIT_MASKS[(H % 10) + 1]

C12_Witness ==
    /\ pc = "render"
    /\ reading = [ written |-> TRUE, humidity |-> 522, temp_celsius |-> 261 ]
    /\ display = << DIGIT_MASKS[8], DIGIT_MASKS[9], DIGIT_MASKS[6], DIGIT_MASKS[3] >>

\* C13: no accepted trigger's service ends with the main loop stopped: the
\* loop always comes back to its idle polling.
C13_ServiceCompletes == pc # "hardfault"

\* C14: slots 0..3 store no bit and odd slots store none; the k-th bit
\* stored (k in 0..39) is 1 exactly when the hold count of slot 4 + 2k is
\* above 50, and sits in byte k div 8 with earlier bits above later ones.
C14_BitDecoding ==
    dht.at \in { "slots", "validate", "done" } =>
        /\ dht.bits = (IF dht.i <= 4 THEN 0 ELSE (dht.i - 3) \div 2)
        /\ \A k \in 0..39 :
              k < dht.bits =>
                 LET n == k \div 8
                     have == IF dht.bits - 8 * n >= 8 THEN 8 ELSE dht.bits - 8 * n
                     pos == have - 1 - (k % 8)
                 IN  (dht.data[n + 1] \div (2 ^ pos)) % 2 =
                        (IF wire[4 + 2 * k + 1] > 50 THEN 1 ELSE 0)
        /\ \A n \in 0..4 :
              LET left == dht.bits - 8 * n
                  have == IF left >= 8 THEN 8 ELSE IF left <= 0 THEN 0 ELSE left
              IN  dht.data[n + 1] \in 0..(2 ^ have - 1)

C14_Witness ==
    /\ dht.at = "done"
    /\ dht.bits = 40
    /\ dht.data = << 2, 10, 1, 5, 18 >>
    /\ wire[4] = 254
    /\ wire[5] = 50
    /\ wire[6] = 254

\* The counts of C15: per accepted trigger read_from_dht is called once
\* and display_all once, never more, and neither without an accepted
\* trigger.
C15_Counts ==
    /\ hist.reads <= 1 /\ hist.renders <= 1
    /\ hist.accepted = 0 => (hist.reads = 0 /\ hist.renders = 0)
    /\ pc = "read" => (hist.reads = 0 /\ hist.renders = 0)
    /\ pc \in { "digits", "render" } => (hist.reads = 1 /\ hist.renders = 0)
    /\ (pc \in { "sleep", "test", "clear", "time" } /\ hist.accepted >= 1)
          => (hist.reads = 1 /\ hist.renders = 1)

C16_DroppedNoEffect ==
    /\ [][ (pc = "time" /\ pc' = "test") =>
              /\ last_press' = last_press
              /\ display' = display
              /\ gpio' = gpio
              /\ dht' = dht
              /\ hist'.reads = hist.reads
              /\ should_read' = should_read
              /\ ~hist.since_clear => ~should_read' ]_vars
    /\ [](should_read => hist.since_clear)

C16_Witness ==
    /\ pc = "test"
    /\ hist.dropped
    /\ hist.accepted = 1
    /\ now = last_press + DEBOUNCE_US
    /\ ~should_read

\* C17: a step of button_callback (the only step that leaves main where it
\* is) sets should_read, leaves the interrupt armed and changes neither
\* last_press, display nor a pin; last_press changes only in the main-loop
\* step that accepts a trigger, to the time just read.
C17_HandlerFrame ==
    /\ [][ pc' = pc =>
              /\ should_read'
              /\ irq_enabled'
              /\ last_press' = last_press
              /\ display' = display
              /\ gpio' = gpio ]_vars
    /\ [][ last_press' # last_press =>
              (pc = "time" /\ pc' = "read" /\ last_press' = now') ]_vars

C17_Witness ==
    /\ pc = "render"
    /\ should_read
    /\ hist.since_clear
    /\ irq_enabled
    /\ now > last_press - 1
    /\ display # DisplayInit

\* C18: the first trigger after start-up (none accepted before) is
\* accepted whenever the main loop observes it.
C18_FirstTriggerServiced ==
    [][ (pc = "time" /\ pc' # "time" /\ hist.accepted = 0) => pc' = "read" ]_vars

\* C19: during a render session at most one digit-select line is 0.  Stated
\* for the states after the first dwell point, where no line still holds
\* its start-up level.
C19_OneDigitSelected ==
    (rnd.at \in { "digit", "segment", "sleep", "off_digit", "off_segment" }
       /\ rnd.dwells >= 1)
    => Cardinality({ k \in 1..4 : gpio[DIGIT_PINS[k]] = 0 }) <= 1

====
